---- MODULE Spec2Model ----
(***************************************************************************)
(* UniformGridFilters (pyvista/core/filters/uniformgridfilters.py):        *)
(* gaussian_smooth and extract_subset, the two filters a uniform grid      *)
(* offers on top of the VTK engines vtkImageGaussianSmooth and             *)
(* vtkExtractVOI.                                                          *)
(*                                                                         *)
(* Objects live in a heap keyed by identity.  Object DatasetId is the      *)
(* caller's grid; every call builds its engine, the engine's output and    *)
(* (for extract_subset) the rebuilt grid `fixed` as new objects.           *)
(* Floating point values are modelled by integers (tenths for the kernel   *)
(* parameters, grid units for origin and spacing).                         *)
(***************************************************************************)
EXTENDS Integers, Sequences, FiniteSets, TLC

\* ------------------------------------------------------------------ bounds
\* largest number of points per axis of the input grid
MaxDim == 3
\* largest per-axis sampling rate
MaxRate == 2

\* ------------------------------------------------------- program constants
\* gaussian_smooth(radius_factor=1.5), in tenths
DefaultRadiusFactor == 15
\* gaussian_smooth(std_dev=2.), in tenths
DefaultStdDev == 20
\* the lengths the engine's setters take: SetVOI(6 ints), SetSampleRate(3 ints),
\* SetRadiusFactors / SetStandardDeviations (3 floats)
VoiLen == 6
TripleLen == 3

Axes == 1..3

\* object identities
DatasetId == 1
ResultId == 2
FixedId == 3

Names == {"a", "b"}
NoName == "none"

\* ----------------------------------------------------------------- helpers
Max(a, b) == IF a >= b THEN a ELSE b
Min(a, b) == IF a <= b THEN a ELSE b

Prod3(d) == d[1] * d[2] * d[3]

\* number of cells per axis of a grid with d points on it (a flat axis has one)
CellDims(d) == [a \in Axes |-> IF d[a] = 0 THEN 0 ELSE Max(d[a] - 1, 1)]

\* flat (1-based) position of point or cell <<i, j, k>> (0-based) in an array
\* laid out x-fastest over dims n
Flat(ijk, n) == 1 + ijk[1] + n[1] * (ijk[2] + n[2] * ijk[3])

\* dict.update: every key of src is written over dst
Update(dst, src) ==
    [n \in (DOMAIN dst) \cup (DOMAIN src) |-> IF n \in DOMAIN src THEN src[n] ELSE dst[n]]

EmptyArrays == [n \in {} |-> <<>>]

\* ------------------------------------------------------------------- grids
\* A vtkImageData as pyvista's UniformGrid shows it: origin, spacing and
\* dimensions, the VTK extent's lower corner (0 for every grid pyvista builds
\* itself), the three attribute collections and the metadata copy_meta_from
\* carries (the active scalars designation).  `filter` records the kernel an
\* engine applied to the grid's data.
Grid(o, s, d, e, pa, ca, fa, act, flt) ==
    [origin |-> o, spacing |-> s, dimensions |-> d, extent_min |-> e,
     point_arrays |-> pa, cell_arrays |-> ca, field_arrays |-> fa,
     active_scalars_info |-> act, filter |-> flt]

NoFilter == <<>>

\* UniformGrid(): the empty grid
EmptyUniformGrid ==
    Grid(<<0, 0, 0>>, <<1, 1, 1>>, <<0, 0, 0>>, <<0, 0, 0>>,
         EmptyArrays, EmptyArrays, EmptyArrays, <<"point", NoName>>, NoFilter)

\* vtkImageData::GetBounds: the axis-aligned bounding box
\* <<xmin, xmax, ymin, ymax, zmin, zmax>>; the two ends swap on an axis of
\* negative spacing; an empty grid has the uninitialised bounds (1, -1).
AxisBounds(g, a) ==
    IF g.dimensions[a] = 0 THEN <<1, -1>>
    ELSE LET p0 == g.origin[a] + g.extent_min[a] * g.spacing[a]
             p1 == g.origin[a] + (g.extent_min[a] + g.dimensions[a] - 1) * g.spacing[a]
         IN  <<Min(p0, p1), Max(p0, p1)>>

Bounds(g) ==
    <<AxisBounds(g, 1)[1], AxisBounds(g, 1)[2],
      AxisBounds(g, 2)[1], AxisBounds(g, 2)[2],
      AxisBounds(g, 3)[1], AxisBounds(g, 3)[2]>>

\* physical coordinate, on axis a, of the grid's n-th sample (0-based)
SampleAt(g, a, n) == g.origin[a] + (g.extent_min[a] + n) * g.spacing[a]

n_points(g) == Prod3(g.dimensions)
n_cells(g) == Prod3(CellDims(g.dimensions))

\* ------------------------------------------------------------------- heap
Put(heap, id, g) == [i \in (DOMAIN heap) \cup {id} |-> IF i = id THEN g ELSE heap[i]]

\* what a new call can reach: the caller's grid.  The engine, the raw result
\* and the rebuilt grid of an earlier call were that call's own objects.
Reachable(heap) == [i \in {DatasetId} |-> heap[i]]

\* ------------------------------------------------- engine: configuration
\* The engine object `alg`: its class, what the setters stored, the setters
\* that ran (in order) and whether it executed.
NewAlg(kind) ==
    [kind |-> kind, input |-> 0, voi |-> <<>>, rate |-> <<>>, boundary |-> FALSE,
     array |-> <<>>, radius |-> <<>>, stddev |-> <<>>,
     configured |-> <<>>, executed |-> FALSE]

NoAlg == NewAlg("none")

Did(alg, setter) == [alg EXCEPT !.configured = Append(@, setter)]

\* The VTK wrappers take a fixed-size array argument only from a sequence of
\* exactly that size, and raise TypeError otherwise.
AcceptsSeq(seq, n) == Len(seq) = n

\* --------------------------------------------------- engine: vtkExtractVOI
\* the VOI on axis a, and the input's extent there
VoiMin(voi, a) == voi[2 * a - 1]
VoiMax(voi, a) == voi[2 * a]
ExtMin(g, a) == g.extent_min[a]
ExtMax(g, a) == g.extent_min[a] + g.dimensions[a] - 1

\* The VOI meets the input's extent on every axis (else the output is empty).
Intersects(g, voi) ==
    \A a \in Axes : /\ VoiMin(voi, a) <= VoiMax(voi, a)
                    /\ VoiMin(voi, a) <= ExtMax(g, a)
                    /\ VoiMax(voi, a) >= ExtMin(g, a)

\* The VOI is clamped to the input's extent.
ClampLo(g, voi, a) == Max(VoiMin(voi, a), ExtMin(g, a))
ClampHi(g, voi, a) == Min(VoiMax(voi, a), ExtMax(g, a))

\* The input indices kept on one axis: lo, lo + r, ... up to hi, and hi itself
\* when the boundary is included and the stride did not land on it.
AxisMapping(lo, hi, r, boundary) ==
    LET n == ((hi - lo) \div r) + 1
        strided == [k \in 1..n |-> lo + (k - 1) * r]
    IN  IF boundary /\ strided[n] # hi THEN Append(strided, hi) ELSE strided

Mapping(g, voi, rate, boundary) ==
    [a \in Axes |-> AxisMapping(ClampLo(g, voi, a), ClampHi(g, voi, a), rate[a], boundary)]

\* <<i, j, k>> (0-based) of the q-th (0-based) entry of an array over dims n
Unflat(q, n) == <<q % n[1], (q \div n[1]) % n[2], q \div (n[1] * n[2])>>

\* point data of the output: output point <<i, j, k>> is input point
\* <<map[1][i], map[2][j], map[3][k]>>
ExtractPoints(g, map, arr) ==
    LET n == [a \in Axes |-> Len(map[a])]
    IN  [p \in 1..Prod3(n) |->
            LET ijk == Unflat(p - 1, n)
                src == [a \in Axes |-> map[a][ijk[a] + 1] - ExtMin(g, a)]
            IN  arr[Flat(src, g.dimensions)]]

\* cell data of the output: output cell <<i, j, k>> is the input cell at whose
\* lower corner its lower corner sits (the last input cell on an axis the
\* output is flat on)
ExtractCells(g, map, arr) ==
    LET n == CellDims([a \in Axes |-> Len(map[a])])
        inCells == CellDims(g.dimensions)
    IN  [c \in 1..Prod3(n) |->
            LET ijk == Unflat(c - 1, n)
                src == [a \in Axes |->
                           Min(map[a][ijk[a] + 1] - ExtMin(g, a), inCells[a] - 1)]
            IN  arr[Flat(src, inCells)]]

\* The engine's output for an input grid g: the kept samples, spacing scaled by
\* the rate, an extent starting at floor(lo / rate) and an origin that puts that
\* extent's first sample where the first kept sample was.  With rate 1 the
\* origin is the input's and the extent starts at the VOI's lower corner, which
\* the grid's origin attribute does not show.
ExtractVOI_Output(g, voi, rate, boundary) ==
    IF ~Intersects(g, voi)
    THEN EmptyUniformGrid
    ELSE LET map == Mapping(g, voi, rate, boundary)
             emin == [a \in Axes |-> ClampLo(g, voi, a) \div rate[a]]
             sp == [a \in Axes |-> g.spacing[a] * rate[a]]
             org == [a \in Axes |->
                        g.origin[a] + ClampLo(g, voi, a) * g.spacing[a] - emin[a] * sp[a]]
         IN  Grid(org, sp, [a \in Axes |-> Len(map[a])], emin,
                  [n \in DOMAIN g.point_arrays |-> ExtractPoints(g, map, g.point_arrays[n])],
                  [n \in DOMAIN g.cell_arrays |-> ExtractCells(g, map, g.cell_arrays[n])],
                  g.field_arrays, <<"point", NoName>>, NoFilter)

\* ------------------------------------------ pyvista: grids and engine output
\* DataSet.copy_meta_from
copy_meta_from(g, other) == [g EXCEPT !.active_scalars_info = other.active_scalars_info]

\* _get_output(alg): the engine's output wrapped, with the input's metadata
get_output(out, input) == copy_meta_from(out, input)

\* pyvista's field association of an array and its number (FieldAssociation.value),
\* which is also the engine's (0: point data, 1: cell data)
FieldValue(field) == IF field = "point" THEN 0 ELSE 1

\* dataset.get_array(name, preference=..., info=True): the named array's
\* location; the preferred one when both collections hold the name; an error
\* when neither does
get_array(g, name, preference) ==
    LET inPoint == name \in DOMAIN g.point_arrays
        inCell == name \in DOMAIN g.cell_arrays
    IN  IF inPoint /\ inCell THEN [found |-> TRUE, field |-> preference]
        ELSE IF inPoint THEN [found |-> TRUE, field |-> "point"]
        ELSE IF inCell THEN [found |-> TRUE, field |-> "cell"]
        ELSE [found |-> FALSE, field |-> "none"]

\* dataset.active_scalars_info: (field, name) of the active scalars
active_scalars_info(g) == [field |-> g.active_scalars_info[1], name |-> g.active_scalars_info[2]]

\* --------------------------------------------- engine: vtkImageGaussianSmooth
\* The engine's output: the input's geometry and arrays, the selected array
\* convolved with the configured kernel (recorded, not computed).
GaussianSmooth_Output(g, alg) ==
    [g EXCEPT !.filter = <<alg.array, alg.radius, alg.stddev>>,
              !.active_scalars_info = <<"point", NoName>>]

\* ------------------------------------------------------------ call outcomes
Raise(heap, alg, error) == [heap |-> heap, alg |-> alg, outcome |-> error, returned |-> 0]
Return(heap, alg, id) == [heap |-> heap, alg |-> alg, outcome |-> "ok", returned |-> id]

\* ---------------------------------------------------------- gaussian_smooth
\* variant: the name asked for is ignored, the active scalars are processed
ResolveScalars_IgnoresName(dataset, scalars, preference) ==
    [ok |-> TRUE, field |-> dataset.active_scalars_info[1],
     name |-> dataset.active_scalars_info[2]]

\* variant: the active scalars are looked up by name, so preference picks the
\* location when both collections hold it
ResolveScalars_ByPreference(dataset, scalars, preference) ==
    LET name == IF scalars = NoName THEN dataset.active_scalars_info[2] ELSE scalars
        inPoint == name \in DOMAIN dataset.point_arrays
        inCell == name \in DOMAIN dataset.cell_arrays
    IN  [ok |-> inPoint \/ inCell,
         field |-> IF inPoint /\ inCell THEN preference
                   ELSE IF inPoint THEN "point" ELSE "cell",
         name |-> name]

\* lines 62-65: the array to process, (ok, field, name)
ResolveScalars(dataset, scalars, preference) ==
    IF scalars = NoName
    THEN LET info == active_scalars_info(dataset)
         IN  [ok |-> TRUE, field |-> info.field, name |-> info.name]
    ELSE LET got == get_array(dataset, scalars, preference)
         IN  [ok |-> got.found, field |-> got.field, name |-> scalars]

\* A float-or-iterable parameter: iterable says which, v holds the value(s).
Scalar(x) == [iterable |-> FALSE, v |-> <<x>>]
Iterable(seq) == [iterable |-> TRUE, v |-> seq]

\* variant: a scalar reaches only the first two axes
SetterArgs_TwoAxes(param) ==
    IF param.iterable THEN param.v ELSE <<param.v[1], param.v[1], 0>>

\* lines 67-70 and 71-74: what the setter is called with
SetterArgs(param) ==
    IF param.iterable THEN param.v ELSE <<param.v[1], param.v[1], param.v[1]>>

gaussian_smooth(heap0, radius_factor, std_dev, scalars, preference) ==
    LET heap == Reachable(heap0)
        dataset == heap[DatasetId]
        alg0 == NewAlg("vtkImageGaussianSmooth")
        alg1 == Did([alg0 EXCEPT !.input = DatasetId], "SetInputDataObject")
        sel == ResolveScalars(dataset, scalars, preference)
        alg2 == Did([alg1 EXCEPT !.array = <<FieldValue(sel.field), sel.name>>],
                    "SetInputArrayToProcess")
        alg3 == Did([alg2 EXCEPT !.radius = SetterArgs(radius_factor)], "SetRadiusFactors")
        alg4 == Did([alg3 EXCEPT !.stddev = SetterArgs(std_dev)], "SetStandardDeviations")
        alg5 == [alg4 EXCEPT !.executed = TRUE]
        out == get_output(GaussianSmooth_Output(heap[alg5.input], alg5), heap[alg5.input])
    IN  IF ~sel.ok THEN Raise(heap, alg1, "FieldNotFoundError")
        ELSE IF ~AcceptsSeq(SetterArgs(radius_factor), TripleLen) THEN Raise(heap, alg2, "TypeError")
        ELSE IF ~AcceptsSeq(SetterArgs(std_dev), TripleLen) THEN Raise(heap, alg3, "TypeError")
        ELSE Return(Put(heap, ResultId, out), alg5, ResultId)

\* ----------------------------------------------------------- extract_subset
\* variant: the flag is never switched on
IncludeBoundary_Off(boundary) == FALSE

\* line 113: the flag handed to SetIncludeBoundary
IncludeBoundary(boundary) == boundary

\* variant: the caller's grid itself is rebuilt in place
NewUniformGrid_InPlace(heap) == [heap |-> heap, id |-> DatasetId]

\* line 118: fixed = UniformGrid(), a new object
NewUniformGrid(heap) == [heap |-> Put(heap, FixedId, EmptyUniformGrid), id |-> FixedId]

\* line 119: result.bounds[::2]
FixedOrigin(result) == <<Bounds(result)[1], Bounds(result)[3], Bounds(result)[5]>>
\* line 120
FixedSpacing(result) == result.spacing
\* variant: the extent's upper corner is taken for the number of samples
FixedDimensions_FromExtent(result) ==
    [a \in Axes |-> result.extent_min[a] + result.dimensions[a]]

\* line 121
FixedDimensions(result) == result.dimensions

\* variant: the cell arrays are left out
UpdateArrays_NoCells(fixed, result) ==
    [fixed EXCEPT !.point_arrays = Update(@, result.point_arrays),
                  !.field_arrays = Update(@, result.field_arrays)]

\* lines 122-124
UpdateArrays(fixed, result) ==
    [fixed EXCEPT !.point_arrays = Update(@, result.point_arrays),
                  !.cell_arrays = Update(@, result.cell_arrays),
                  !.field_arrays = Update(@, result.field_arrays)]

\* lines 118-125: the grid rebuilt from the engine's result.  The setters of
\* a UniformGrid leave its extent at 0.
Reconcile(fixed, result) ==
    LET f1 == [fixed EXCEPT !.origin = FixedOrigin(result)]
        f2 == [f1 EXCEPT !.spacing = FixedSpacing(result)]
        f3 == [f2 EXCEPT !.dimensions = FixedDimensions(result), !.extent_min = <<0, 0, 0>>]
    IN  copy_meta_from(UpdateArrays(f3, result), result)

extract_subset(heap0, voi, rate, boundary) ==
    LET heap == Reachable(heap0)
        alg0 == NewAlg("vtkExtractVOI")
        alg1 == Did([alg0 EXCEPT !.voi = voi], "SetVOI")
        alg2 == Did([alg1 EXCEPT !.input = DatasetId], "SetInputDataObject")
        alg3 == Did([alg2 EXCEPT !.rate = rate], "SetSampleRate")
        alg4 == Did([alg3 EXCEPT !.boundary = IncludeBoundary(boundary)], "SetIncludeBoundary")
        alg5 == [alg4 EXCEPT !.executed = TRUE]
        result == get_output(ExtractVOI_Output(heap[alg5.input], alg5.voi, alg5.rate,
                                               alg5.boundary),
                             heap[alg5.input])
        heap1 == Put(heap, ResultId, result)
        new == NewUniformGrid(heap1)
        heap2 == Put(new.heap, new.id, Reconcile(new.heap[new.id], new.heap[ResultId]))
    IN  IF ~AcceptsSeq(voi, VoiLen) THEN Raise(heap, alg0, "TypeError")
        ELSE IF ~AcceptsSeq(rate, TripleLen) THEN Raise(heap, alg2, "TypeError")
        ELSE Return(heap2, alg5, new.id)

\* ------------------------------------------------------------------ inputs
\* The caller's grids: every dimension up to the bound (the second and third
\* axis one shorter), in three placements (unit, stretched and shifted,
\* mirrored with negative spacing) each with its own attribute layout.
DimsSet ==
    {d \in [Axes -> 1..MaxDim] : d[2] <= Max(MaxDim - 1, 1) /\ d[3] <= Max(MaxDim - 1, 1)}

Ramp(base, n) == [p \in 1..n |-> base + p]

Layouts == 1..3

MakeDataset(d, layout) ==
    LET np == Prod3(d)
        nc == Prod3(CellDims(d))
        pa == [n \in {"a"} |-> Ramp(100, np)]
        pb == [n \in {"b"} |-> Ramp(200, np)]
        ca == [n \in {"a"} |-> Ramp(300, nc)]
        cab == [n \in {"a", "b"} |-> IF n = "a" THEN Ramp(300, nc) ELSE Ramp(400, nc)]
        f == [n \in {"f"} |-> <<7, 8>>]
    IN  CASE layout = 1 ->
               Grid(<<0, 0, 0>>, <<1, 1, 1>>, d, <<0, 0, 0>>,
                    pa, EmptyArrays, EmptyArrays, <<"point", "a">>, NoFilter)
          [] layout = 2 ->
               Grid(<<10, -4, 7>>, <<2, 3, 1>>, d, <<0, 0, 0>>,
                    pa, cab, f, <<"cell", "a">>, NoFilter)
          [] OTHER ->
               Grid(<<15, 0, 2>>, <<-1, 2, -2>>, d, <<0, 0, 0>>,
                    pb, ca, EmptyArrays, <<"point", "b">>, NoFilter)

\* the unit placement (layout 1) is given to the grids flat in z (images)
Datasets ==
    {MakeDataset(d, l) : d \in DimsSet, l \in Layouts \ {1}}
    \cup {MakeDataset(d, 1) : d \in {e \in DimsSet : e[3] = 1}}

\* VOIs: every valid one, and the whole grid with one axis out of range or
\* reversed (bounds from -1 to the dimension)
ValidPairs(d) == {p \in (0..(d - 1)) \X (0..(d - 1)) : p[1] <= p[2]}
InvalidPairs(d) == (((-1)..d) \X ((-1)..d)) \ ValidPairs(d)
MkVoi(p1, p2, p3) == <<p1[1], p1[2], p2[1], p2[2], p3[1], p3[2]>>
ValidVOIs(d) ==
    {MkVoi(p1, p2, p3) : p1 \in ValidPairs(d[1]), p2 \in ValidPairs(d[2]), p3 \in ValidPairs(d[3])}
InvalidVOIs(d) ==
    {MkVoi(p, <<0, d[2] - 1>>, <<0, d[3] - 1>>) : p \in InvalidPairs(d[1])}
    \cup {MkVoi(<<0, d[1] - 1>>, p, <<0, d[3] - 1>>) : p \in InvalidPairs(d[2])}
    \cup {MkVoi(<<0, d[1] - 1>>, <<0, d[2] - 1>>, p) : p \in InvalidPairs(d[3])}
WholeVOI(d) == <<0, d[1] - 1, 0, d[2] - 1, 0, d[3] - 1>>

Rates == [Axes -> 1..MaxRate]
UnitRate == <<1, 1, 1>>

ExtractArgs(d) ==
    {[voi |-> v, rate |-> r, boundary |-> b] : v \in ValidVOIs(d), r \in Rates, b \in BOOLEAN}
    \cup {[voi |-> v, rate |-> r, boundary |-> b] :
             v \in InvalidVOIs(d), r \in {UnitRate, [a \in Axes |-> MaxRate]}, b \in BOOLEAN}
    \cup {[voi |-> v, rate |-> r, boundary |-> b] :
             v \in {SubSeq(WholeVOI(d), 1, 5), WholeVOI(d) \o <<0>>},
             r \in {UnitRate, <<1, 1>>}, b \in BOOLEAN}
    \cup {[voi |-> WholeVOI(d), rate |-> r, boundary |-> b] :
             r \in {<<1, 1>>, <<1, 2, 1, 1>>}, b \in BOOLEAN}

KernelParams ==
    {Scalar(DefaultRadiusFactor), Scalar(DefaultStdDev), Scalar(5),
     Iterable(<<15, 15, 15>>), Iterable(<<20, 20, 20>>), Iterable(<<5, 10, 15>>),
     Iterable(<<5, 10>>), Iterable(<<5, 10, 15, 20>>)}

\* scalars: unset, a name of the point or cell arrays, the name of the field
\* array, a name no collection holds
ScalarsArgs == Names \cup {"f", "zz", NoName}
Preferences == {"point", "cell"}

\* -------------------------------------------------------------------- state
VARIABLES
    heap,       \* object identity -> grid
    initial,    \* the caller's grid as it was built (history)
    call,       \* the last call and its arguments
    alg,        \* the last call's engine
    outcome,    \* "none", "ok" or the error raised
    returned    \* identity of the grid returned (0: none)

vars == <<heap, initial, call, alg, outcome, returned>>

Call(op, voi, rate, boundary, radius_factor, std_dev, scalars, preference) ==
    [op |-> op, voi |-> voi, rate |-> rate, boundary |-> boundary,
     radius_factor |-> radius_factor, std_dev |-> std_dev,
     scalars |-> scalars, preference |-> preference]

NoCall ==
    Call("none", <<>>, <<>>, FALSE, Scalar(DefaultRadiusFactor), Scalar(DefaultStdDev),
         NoName, "point")

Init ==
    /\ \E ds \in Datasets : heap = [i \in {DatasetId} |-> ds] /\ initial = ds
    /\ call = NoCall
    /\ alg = NoAlg
    /\ outcome = "none"
    /\ returned = 0

Finish(r) ==
    /\ heap' = r.heap
    /\ alg' = r.alg
    /\ outcome' = r.outcome
    /\ returned' = r.returned
    /\ UNCHANGED initial

\* The caller holds one result at a time: it calls a filter on its grid, looks
\* at what came back, drops it and calls again.
Idle == call.op = "none"

ExtractSubset ==
    /\ Idle
    /\ \E args \in ExtractArgs(heap[DatasetId].dimensions) :
        /\ call' = Call("extract_subset", args.voi, args.rate, args.boundary,
                        Scalar(DefaultRadiusFactor), Scalar(DefaultStdDev), NoName, "point")
        /\ Finish(extract_subset(heap, args.voi, args.rate, args.boundary))

GaussianSmooth ==
    /\ Idle
    /\ \E rf \in KernelParams, sd \in KernelParams, sc \in ScalarsArgs, pref \in Preferences :
        /\ call' = Call("gaussian_smooth", <<>>, <<>>, FALSE, rf, sd, sc, pref)
        /\ Finish(gaussian_smooth(heap, rf, sd, sc, pref))

\* the caller drops the result (or the error) of the last call
Discard ==
    /\ ~Idle
    /\ heap' = Reachable(heap)
    /\ call' = NoCall
    /\ alg' = NoAlg
    /\ outcome' = "none"
    /\ returned' = 0
    /\ UNCHANGED initial

Next == ExtractSubset \/ GaussianSmooth \/ Discard

Spec == Init /\ [][Next]_vars

\* ------------------------------------------------------------- properties
dataset == heap[DatasetId]

Extracted == call.op = "extract_subset"
Smoothed == call.op = "gaussian_smooth"

\* the VOI invariant of the data model: six bounds, ordered, inside the grid
ValidVOI(g, voi) ==
    /\ Len(voi) = VoiLen
    /\ \A a \in Axes : /\ 0 <= VoiMin(voi, a)
                       /\ VoiMin(voi, a) <= VoiMax(voi, a)
                       /\ VoiMax(voi, a) <= g.dimensions[a] - 1

WellFormedExtract == Extracted /\ Len(call.rate) = TripleLen /\ ValidVOI(initial, call.voi)

\* physical coordinate on axis a of input index i
InputLocation(a, i) == initial.origin[a] + i * initial.spacing[a]

\* C1: extract_subset with rate (1,1,1) and a valid VOI returns a grid whose
\* origin is the physical location of the first retained sample,
\* o + (imin, jmin, kmin) * s; the whole-grid VOI gives the input's origin.
C1_OriginIsFirstSample ==
    (WellFormedExtract /\ call.rate = UnitRate) =>
        /\ outcome = "ok"
        /\ \A a \in Axes :
              heap[returned].origin[a] = InputLocation(a, VoiMin(call.voi, a))

\* C2: extract_subset with a valid VOI, rate (1,1,1) and boundary off returns
\* a grid of dimensions (imax-imin+1, jmax-jmin+1, kmax-kmin+1).
C2_SubsetDimensions ==
    (WellFormedExtract /\ call.rate = UnitRate /\ ~call.boundary) =>
        /\ outcome = "ok"
        /\ \A a \in Axes :
              heap[returned].dimensions[a] = VoiMax(call.voi, a) - VoiMin(call.voi, a) + 1

C2_Witness ==
    /\ WellFormedExtract /\ call.rate = UnitRate /\ ~call.boundary
    /\ outcome = "ok"
    /\ VoiMin(call.voi, 1) > 0
    /\ VoiMax(call.voi, 2) < initial.dimensions[2] - 1
    /\ heap[returned].dimensions # initial.dimensions

\* C3: every point, cell and field attribute of the raw engine result is on the
\* returned grid under the same name with the same values, nothing is added or
\* dropped, and the returned grid has the raw result's point and cell counts.
C3_AttributesRoundTrip ==
    (Extracted /\ outcome = "ok") =>
        /\ heap[returned].point_arrays = heap[ResultId].point_arrays
        /\ heap[returned].cell_arrays = heap[ResultId].cell_arrays
        /\ heap[returned].field_arrays = heap[ResultId].field_arrays
        /\ n_points(heap[returned]) = n_points(heap[ResultId])
        /\ n_cells(heap[returned]) = n_cells(heap[ResultId])
        /\ \A n \in DOMAIN heap[returned].point_arrays :
              Len(heap[returned].point_arrays[n]) = n_points(heap[returned])
        /\ \A n \in DOMAIN heap[returned].cell_arrays :
              Len(heap[returned].cell_arrays[n]) = n_cells(heap[returned])

C3_Witness ==
    /\ Extracted /\ outcome = "ok"
    /\ call.rate # UnitRate
    /\ DOMAIN heap[ResultId].point_arrays # {}
    /\ DOMAIN heap[ResultId].cell_arrays = {"a", "b"}
    /\ DOMAIN heap[ResultId].field_arrays # {}
    /\ n_points(heap[ResultId]) > 1
    /\ n_points(heap[ResultId]) < n_points(initial)

\* C4: gaussian_smooth with a scalars name that is in neither the point nor the
\* cell arrays ends in FieldNotFoundError: the engine does not execute and no
\* grid is returned.
C4_UnknownScalarsFails ==
    (/\ Smoothed
     /\ call.scalars # NoName
     /\ call.scalars \notin DOMAIN initial.point_arrays
     /\ call.scalars \notin DOMAIN initial.cell_arrays) =>
        /\ outcome = "FieldNotFoundError"
        /\ ~alg.executed
        /\ returned = 0
        /\ DOMAIN heap = {DatasetId}

C4_Witness ==
    /\ Smoothed
    /\ call.scalars = "b"
    /\ "b" \notin DOMAIN initial.point_arrays
    /\ "b" \notin DOMAIN initial.cell_arrays
    /\ outcome = "FieldNotFoundError"

\* a sequence parameter of the last call has the wrong length
WrongLength ==
    \/ Extracted /\ (Len(call.voi) # VoiLen \/ Len(call.rate) # TripleLen)
    \/ Smoothed /\ \/ call.radius_factor.iterable /\ Len(call.radius_factor.v) # TripleLen
                   \/ call.std_dev.iterable /\ Len(call.std_dev.v) # TripleLen

\* the only rejection of a wrong length the code has is the TypeError of the
\* engine's setter; it counts here as the parameter error
ParameterError == "TypeError"

\* C5: a sequence parameter of the wrong length (radius_factor, std_dev, voi,
\* rate) is rejected with the parameter error before the engine is configured
\* or executed, and no grid is returned.
C5_WrongLengthRejectedFirst ==
    WrongLength =>
        /\ outcome = ParameterError
        /\ alg.configured = <<>>
        /\ ~alg.executed
        /\ returned = 0

\* C6: extract_subset with a VOI that is invalid for the grid (a bound outside
\* [0, dimension-1] or min > max) ends in an error and returns no grid.
C6_InvalidVoiFails ==
    (Extracted /\ Len(call.voi) = VoiLen /\ Len(call.rate) = TripleLen
        /\ ~ValidVOI(initial, call.voi)) =>
        /\ outcome # "ok"
        /\ returned = 0

\* the 3-sequence form of a kernel parameter
AsTriple(param) ==
    IF param.iterable THEN param ELSE Iterable(<<param.v[1], param.v[1], param.v[1]>>)

\* C7: gaussian_smooth with a scalar radius_factor (std_dev) v configures the
\* engine as with (v,v,v); a 3-sequence reaches the engine unchanged.
C7_ScalarIsTriple ==
    (Smoothed /\ outcome = "ok") =>
        /\ alg = gaussian_smooth(heap, AsTriple(call.radius_factor), AsTriple(call.std_dev),
                                 call.scalars, call.preference).alg
        /\ ~call.radius_factor.iterable =>
              \A a \in Axes : alg.radius[a] = call.radius_factor.v[1]
        /\ ~call.std_dev.iterable =>
              \A a \in Axes : alg.stddev[a] = call.std_dev.v[1]
        /\ call.radius_factor.iterable => alg.radius = call.radius_factor.v
        /\ call.std_dev.iterable => alg.stddev = call.std_dev.v

C7_Witness ==
    /\ Smoothed /\ outcome = "ok"
    /\ call.radius_factor = Scalar(5)
    /\ call.std_dev = Iterable(<<5, 10, 15>>)
    /\ alg.radius = <<5, 5, 5>>
    /\ alg.executed

\* the location the engine reads for a field association number
EngineField(v) == IF v = 0 THEN "point" ELSE "cell"

ArrayConfigured == Smoothed /\ Len(alg.configured) >= 2

\* C8: gaussian_smooth with scalars unset has the engine process the (location,
\* name) of the dataset's active scalars, whatever preference is; with scalars
\* set, the array of that name, at the location preference names when both the
\* point and the cell arrays hold it.
C8_ArrayToProcess ==
    /\ (Smoothed /\ call.scalars = NoName) =>
          /\ ArrayConfigured
          /\ EngineField(alg.array[1]) = initial.active_scalars_info[1]
          /\ alg.array[2] = initial.active_scalars_info[2]
    /\ (ArrayConfigured /\ call.scalars # NoName) =>
          /\ alg.array[2] = call.scalars
          /\ LET inPoint == call.scalars \in DOMAIN initial.point_arrays
                 inCell == call.scalars \in DOMAIN initial.cell_arrays
             IN  /\ inPoint /\ inCell => EngineField(alg.array[1]) = call.preference
                 /\ inPoint /\ ~inCell => EngineField(alg.array[1]) = "point"
                 /\ inCell /\ ~inPoint => EngineField(alg.array[1]) = "cell"

C8_Witness ==
    /\ Smoothed /\ outcome = "ok"
    /\ call.scalars = NoName
    /\ call.preference = "point"
    /\ initial.active_scalars_info = <<"cell", "a">>
    /\ "a" \in DOMAIN initial.point_arrays
    /\ alg.array = <<1, "a">>

\* C9: gaussian_smooth and extract_subset leave the input grid as it was
\* (origin, spacing, dimensions, attribute collections, active scalars) after
\* any sequence of calls, failed or not, and return a new object.
C9_InputUnchanged ==
    /\ dataset = initial
    /\ returned # 0 => returned # DatasetId /\ returned \in DOMAIN heap

C9_Witness ==
    /\ Extracted /\ outcome = "ok"
    /\ returned # DatasetId
    /\ heap[returned].origin # initial.origin
    /\ heap[returned].dimensions # initial.dimensions
    /\ DOMAIN heap[returned].point_arrays # {}
    /\ dataset = initial

\* the VOI's extent on axis a, the samples a stride through it keeps, and
\* whether the stride misses the VOI's upper bound
AxisExtent(a) == VoiMax(call.voi, a) - VoiMin(call.voi, a)
Strided(a) == (AxisExtent(a) \div call.rate[a]) + 1
Uneven(a) == AxisExtent(a) % call.rate[a] # 0

\* the returned grid's point at the last sample of axis a (first of the others)
\* and the input point at the VOI's upper bound on a (lower bound on the others)
LastOnAxis(g, a) == Flat([b \in Axes |-> IF b = a THEN g.dimensions[a] - 1 ELSE 0], g.dimensions)
VoiMaxOnAxis(a) ==
    Flat([b \in Axes |-> IF b = a THEN VoiMax(call.voi, a) ELSE VoiMin(call.voi, b)],
         initial.dimensions)

\* the same call with the boundary flag the other way
OtherBoundary == extract_subset(heap, call.voi, call.rate, ~call.boundary)

\* C10 as stated: on an axis whose rate does not divide the VOI extent,
\* boundary=True gives one more sample than boundary=False, the last one at the
\* physical location of index imax; boundary=False gives floor(extent/r)+1
\* samples; when every rate divides its extent boundary changes nothing.
C10_BoundarySampleAtVoiMax ==
    (WellFormedExtract /\ outcome = "ok") =>
        /\ \A a \in Axes :
              /\ (~call.boundary \/ ~Uneven(a)) => heap[returned].dimensions[a] = Strided(a)
              /\ (call.boundary /\ Uneven(a)) =>
                    /\ heap[returned].dimensions[a] = Strided(a) + 1
                    /\ SampleAt(heap[returned], a, heap[returned].dimensions[a] - 1)
                          = InputLocation(a, VoiMax(call.voi, a))
        /\ (\A a \in Axes : ~Uneven(a)) =>
              heap[returned] = OtherBoundary.heap[OtherBoundary.returned]

\* C10 (amended): on an axis whose rate r does not divide the VOI extent,
\* boundary=True gives one more sample than boundary=False; that sample holds
\* the data of index imax, and lies one output spacing (r times the input's)
\* after the one before it, as every sample of the returned grid does;
\* boundary=False gives floor(extent/r)+1 samples; when every rate divides its
\* extent boundary changes nothing.
C10_BoundarySample ==
    (WellFormedExtract /\ outcome = "ok") =>
        /\ \A a \in Axes :
              /\ (~call.boundary \/ ~Uneven(a)) => heap[returned].dimensions[a] = Strided(a)
              /\ SampleAt(heap[returned], a, heap[returned].dimensions[a] - 1)
                    - SampleAt(heap[returned], a, 0)
                    = (heap[returned].dimensions[a] - 1) * call.rate[a] * initial.spacing[a]
              /\ (call.boundary /\ Uneven(a)) =>
                    /\ heap[returned].dimensions[a] = Strided(a) + 1
                    /\ \A n \in DOMAIN initial.point_arrays :
                          heap[returned].point_arrays[n][LastOnAxis(heap[returned], a)]
                             = initial.point_arrays[n][VoiMaxOnAxis(a)]
        /\ (\A a \in Axes : ~Uneven(a)) =>
              heap[returned] = OtherBoundary.heap[OtherBoundary.returned]

C10_Witness ==
    /\ WellFormedExtract /\ outcome = "ok"
    /\ call.boundary
    /\ Uneven(2) /\ ~Uneven(1)
    /\ call.rate[1] > 1 /\ AxisExtent(1) > 0
    /\ heap[returned].dimensions[2] = Strided(2) + 1
    /\ initial.spacing[2] > 0

====
